---------------------------- MODULE Spec2Model ----------------------------
(***************************************************************************)
(* Class-tagged polymorphic decoding of Jenkins payloads (jenkins-api.rs). *)
(*                                                                         *)
(* A payload is a JSON document.  The closed strategy decodes it into one  *)
(* of the tagged unions Build / ChangeSetList / ChangeSet (or their        *)
(* Unknown variant); the open strategy decodes it into the records         *)
(* CommonBuild / MatrixBuild / MatrixRun.  Decoded values are read through *)
(* the common-field accessors and followed to the job, the console text or *)
(* the full build through the client.                                      *)
(***************************************************************************)
EXTENDS Integers, Sequences, FiniteSets, TLC

(***************************************************************************)
(* JSON documents (serde_json::Value).  An object is a function from its   *)
(* keys to values, an array a sequence of values.                          *)
(***************************************************************************)
\* A value holds its kind and, in the slot of that kind, its content; the other
\* slots are empty.
JValue(kind, s, n, b, a, o) ==
    [kind |-> kind, s |-> s, n |-> n, b |-> b, a |-> a, o |-> o]
JNull == JValue("null", "", 0, FALSE, << >>, << >>)
JString(s) == JValue("string", s, 0, FALSE, << >>, << >>)
JNumber(n) == JValue("number", "", n, FALSE, << >>, << >>)
JBool(b) == JValue("bool", "", 0, b, << >>, << >>)
JArray(a) == JValue("array", "", 0, FALSE, a, << >>)
JObject(o) == JValue("object", "", 0, FALSE, << >>, o)

EmptyMap == << >>

\* The object o without key k.
Without(o, k) == [x \in (DOMAIN o) \ {k} |-> o[x]]

\* The object o with key k set to v.
With(o, k, v) == [x \in (DOMAIN o) \cup {k} |-> IF x = k THEN v ELSE o[x]]

(***************************************************************************)
(* Results of a decode or of a call: Ok(value) or Err(error).              *)
(***************************************************************************)
Ok(v) == [ok |-> TRUE, val |-> v]
Err(e) == [ok |-> FALSE, err |-> e]

None == [some |-> FALSE]
Some(v) == [some |-> TRUE, v |-> v]

StructuralDecodeError == [error |-> "StructuralDecodeError"]

(***************************************************************************)
(* Types of declared fields.                                               *)
(***************************************************************************)
TString == [t |-> "String"]
TBool == [t |-> "bool"]
\* An integer type of the given width.  JSON numbers of the model are
\* integers within TLC's own 32-bit range.
TInt(signed, bits) == [t |-> "int", signed |-> signed, bits |-> bits]
TU32 == TInt(FALSE, 32)
TU64 == TInt(FALSE, 64)
TI32 == TInt(TRUE, 32)
TI64 == TInt(TRUE, 64)
TOption(x) == [t |-> "Option", of |-> x]
TVec(x) == [t |-> "Vec", of |-> x]
TStruct(n) == [t |-> "struct", name |-> n]
TUnitEnum(n) == [t |-> "unit_enum", name |-> n]
TTagged(n) == [t |-> "tagged", name |-> n]
TOpaque == [t |-> "opaque"]

\* A declared field: the name in the source and its type.
Field(n, ty) == [name |-> n, type |-> ty]

(***************************************************************************)
(* serde's rename_all = "camelCase": the JSON key of a declared field.     *)
(* (rename = "_class" for the discriminant of CommonBuild.)                *)
(***************************************************************************)
CamelCase(name) ==
    CASE name = "estimated_duration" -> "estimatedDuration"
      [] name = "keep_log" -> "keepLog"
      [] name = "display_name" -> "displayName"
      [] name = "full_display_name" -> "fullDisplayName"
      [] name = "queue_id" -> "queueId"
      [] name = "built_on" -> "builtOn"
      [] name = "change_set" -> "changeSet"
      [] name = "change_sets" -> "changeSets"
      [] name = "previous_build" -> "previousBuild"
      [] name = "maven_version_used" -> "mavenVersionUsed"
      [] name = "maven_artifacts" -> "mavenArtifacts"
      [] name = "display_path" -> "displayPath"
      [] name = "file_name" -> "fileName"
      [] name = "relative_path" -> "relativePath"
      [] name = "full_name" -> "fullName"
      [] name = "absolute_url" -> "absoluteUrl"
      [] name = "author_email" -> "authorEmail"
      [] name = "commit_id" -> "commitId"
      [] name = "affected_paths" -> "affectedPaths"
      [] name = "edit_type" -> "editType"
      [] name = "class" -> "_class"
      [] OTHER -> name

(***************************************************************************)
(* Unit enums: the variants and the string each is written as.             *)
(***************************************************************************)
\* BuildStatus, rename_all = "SCREAMING_SNAKE_CASE".
BuildStatus ==
    << [variant |-> "Success", text |-> "SUCCESS"],
       [variant |-> "Unstable", text |-> "UNSTABLE"],
       [variant |-> "Failure", text |-> "FAILURE"],
       [variant |-> "NotBuilt", text |-> "NOT_BUILT"],
       [variant |-> "Aborted", text |-> "ABORTED"] >>

\* changeset::EditType, rename_all = "lowercase".
EditType ==
    << [variant |-> "Add", text |-> "add"],
       [variant |-> "Edit", text |-> "edit"],
       [variant |-> "Delete", text |-> "delete"] >>

UnitEnum(n) == IF n = "BuildStatus" THEN BuildStatus ELSE EditType

(***************************************************************************)
(* Leaf value objects.                                                     *)
(***************************************************************************)
ShortBuild == << Field("url", TString), Field("number", TU32) >>

Artifact ==
    << Field("display_path", TString),
       Field("file_name", TString),
       Field("relative_path", TString) >>

ShortUser == << Field("full_name", TString), Field("absolute_url", TString) >>

PathChange ==
    << Field("file", TString), Field("edit_type", TUnitEnum("EditType")) >>

Struct(n) ==
    CASE n = "ShortBuild" -> ShortBuild
      [] n = "Artifact" -> Artifact
      [] n = "ShortUser" -> ShortUser
      [] n = "PathChange" -> PathChange

(***************************************************************************)
(* The closed unions (tagged_enum_or_default!): the common fields and, per *)
(* known shape in declaration order, the tag and the shape's own fields.   *)
(***************************************************************************)
Variant(v, tag, fields) == [variant |-> v, class |-> tag, fields |-> fields]

\* BuildCommonFields with result defaulted when the document has none.
BuildCommonFieldsDefaulted ==
    << Field("url", TString),
       Field("number", TU32),
       Field("duration", TU32),
       Field("estimated_duration", TU32),
       Field("timestamp", TU64),
       Field("keep_log", TBool),
       Field("result", TOption(TUnitEnum("BuildStatus"))),
       Field("display_name", TString),
       Field("full_display_name", TString),
       Field("building", TBool),
       Field("id", TString),
       Field("queue_id", TI32),
       Field("actions", TVec(TOpaque)),
       Field("artifacts", TVec(TStruct("Artifact"))) >>

BuildCommonFields ==
    << Field("url", TString),
       Field("number", TU32),
       Field("duration", TU32),
       Field("estimated_duration", TU32),
       Field("timestamp", TU64),
       Field("keep_log", TBool),
       Field("result", TUnitEnum("BuildStatus")),
       Field("display_name", TString),
       Field("full_display_name", TString),
       Field("building", TBool),
       Field("id", TString),
       Field("queue_id", TI32),
       Field("actions", TVec(TOpaque)),
       Field("artifacts", TVec(TStruct("Artifact"))) >>

\* BuildVariants with the tag of MatrixRun misspelt.
BuildVariantsMisspelt ==
    << Variant("FreeStyleBuild", "hudson.model.FreeStyleBuild",
               << Field("built_on", TString),
                  Field("change_set", TTagged("ChangeSetList")) >>),
       Variant("WorkflowRun", "org.jenkinsci.plugins.workflow.job.WorkflowRun",
               << Field("change_sets", TVec(TTagged("ChangeSetList"))),
                  Field("previous_build", TOption(TStruct("ShortBuild"))) >>),
       Variant("MatrixBuild", "hudson.matrix.MatrixBuild",
               << Field("change_set", TTagged("ChangeSetList")),
                  Field("runs", TVec(TStruct("ShortBuild"))) >>),
       Variant("MatrixRun", "hudson.matrix.MatriRun",
               << Field("change_set", TTagged("ChangeSetList")) >>),
       Variant("MavenModuleSetBuild", "hudson.maven.MavenModuleSetBuild",
               << Field("change_set", TTagged("ChangeSetList")),
                  Field("maven_version_used", TString),
                  Field("built_on", TString) >>),
       Variant("MavenBuild", "hudson.maven.MavenBuild",
               << Field("change_set", TTagged("ChangeSetList")),
                  Field("built_on", TString),
                  Field("maven_artifacts", TOpaque) >>) >>

BuildVariants ==
    << Variant("FreeStyleBuild", "hudson.model.FreeStyleBuild",
               << Field("built_on", TString),
                  Field("change_set", TTagged("ChangeSetList")) >>),
       Variant("WorkflowRun", "org.jenkinsci.plugins.workflow.job.WorkflowRun",
               << Field("change_sets", TVec(TTagged("ChangeSetList"))),
                  Field("previous_build", TOption(TStruct("ShortBuild"))) >>),
       Variant("MatrixBuild", "hudson.matrix.MatrixBuild",
               << Field("change_set", TTagged("ChangeSetList")),
                  Field("runs", TVec(TStruct("ShortBuild"))) >>),
       Variant("MatrixRun", "hudson.matrix.MatrixRun",
               << Field("change_set", TTagged("ChangeSetList")) >>),
       Variant("MavenModuleSetBuild", "hudson.maven.MavenModuleSetBuild",
               << Field("change_set", TTagged("ChangeSetList")),
                  Field("maven_version_used", TString),
                  Field("built_on", TString) >>),
       Variant("MavenBuild", "hudson.maven.MavenBuild",
               << Field("change_set", TTagged("ChangeSetList")),
                  Field("built_on", TString),
                  Field("maven_artifacts", TOpaque) >>) >>

ChangeSetListVariants ==
    << Variant("EmptyChangeSet", "hudson.scm.EmptyChangeLogSet", << >>),
       Variant("GitChangeSetList", "hudson.plugins.git.GitChangeSetList",
               << Field("kind", TString),
                  Field("items", TVec(TTagged("ChangeSet"))) >>),
       Variant("RepoChangeLogSet", "hudson.plugins.repo.RepoChangeLogSet",
               << Field("kind", TString),
                  Field("items", TVec(TTagged("ChangeSet"))) >>),
       Variant("FilteredChangeLogSet", "hudson.maven.FilteredChangeLogSet",
               << Field("kind", TOption(TString)),
                  Field("items", TVec(TTagged("ChangeSet"))) >>) >>

\* ChangeSetVariants with the tag of GitChangeSet misspelt.
ChangeSetVariantsMisspelt ==
    << Variant("GitChangeSet", "hudson.plugins.git.GitChangeset",
               << Field("comment", TString),
                  Field("author_email", TString),
                  Field("commit_id", TString),
                  Field("date", TString),
                  Field("msg", TString),
                  Field("timestamp", TU64),
                  Field("id", TString),
                  Field("affected_paths", TVec(TString)),
                  Field("author", TStruct("ShortUser")),
                  Field("paths", TVec(TStruct("PathChange"))) >>),
       Variant("ChangeLogEntry", "hudson.plugins.repo.ChangeLogEntry",
               << Field("commit_id", TOption(TString)),
                  Field("msg", TString),
                  Field("timestamp", TI64),
                  Field("affected_paths", TOption(TVec(TString))),
                  Field("author", TStruct("ShortUser")) >>) >>

ChangeSetVariants ==
    << Variant("GitChangeSet", "hudson.plugins.git.GitChangeSet",
               << Field("comment", TString),
                  Field("author_email", TString),
                  Field("commit_id", TString),
                  Field("date", TString),
                  Field("msg", TString),
                  Field("timestamp", TU64),
                  Field("id", TString),
                  Field("affected_paths", TVec(TString)),
                  Field("author", TStruct("ShortUser")),
                  Field("paths", TVec(TStruct("PathChange"))) >>),
       Variant("ChangeLogEntry", "hudson.plugins.repo.ChangeLogEntry",
               << Field("commit_id", TOption(TString)),
                  Field("msg", TString),
                  Field("timestamp", TI64),
                  Field("affected_paths", TOption(TVec(TString))),
                  Field("author", TStruct("ShortUser")) >>) >>

\* The closed union named n: its common fields and its known shapes.
TaggedEnum(n) ==
    CASE n = "Build" ->
           [common |-> BuildCommonFields, variants |-> BuildVariants]
      [] n = "ChangeSetList" ->
           [common |-> << >>, variants |-> ChangeSetListVariants]
      [] n = "ChangeSet" ->
           [common |-> << >>, variants |-> ChangeSetVariants]

(***************************************************************************)
(* The open records (build_with_common_fields_and_impl!): the common       *)
(* fields every record declares, then the record's own.                    *)
(***************************************************************************)
\* CommonFields with every field but url and number optional.
CommonFieldsOptional ==
    << Field("url", TString),
       Field("number", TU32),
       Field("duration", TOption(TU32)),
       Field("estimated_duration", TOption(TU32)),
       Field("timestamp", TOption(TU64)),
       Field("keep_log", TOption(TBool)),
       Field("result", TOption(TUnitEnum("BuildStatus"))),
       Field("display_name", TOption(TString)),
       Field("full_display_name", TOption(TString)),
       Field("description", TOption(TString)),
       Field("building", TOption(TBool)),
       Field("id", TOption(TString)),
       Field("queue_id", TOption(TI32)),
       Field("actions", TOption(TVec(TOpaque))),
       Field("artifacts", TOption(TVec(TStruct("Artifact")))) >>

CommonFields ==
    << Field("url", TString),
       Field("number", TU32),
       Field("duration", TU32),
       Field("estimated_duration", TU32),
       Field("timestamp", TU64),
       Field("keep_log", TBool),
       Field("result", TUnitEnum("BuildStatus")),
       Field("display_name", TString),
       Field("full_display_name", TString),
       Field("description", TOption(TString)),
       Field("building", TBool),
       Field("id", TString),
       Field("queue_id", TI32),
       Field("actions", TVec(TOpaque)),
       Field("artifacts", TVec(TStruct("Artifact"))) >>

\* CommonBuild: the discriminant, and other_fields with serde(flatten).
CommonBuild ==
    [fields |-> CommonFields \o << Field("class", TOption(TString)) >>,
     flatten |-> TRUE]

\* MatrixBuild: no flattened field.
MatrixBuild ==
    [fields |-> CommonFields \o
                << Field("change_set", TOpaque),
                   Field("runs", TVec(TStruct("ShortBuild"))),
                   Field("culprits", TVec(TStruct("ShortUser"))) >>,
     flatten |-> FALSE]

\* MatrixRun: no flattened field.
MatrixRun ==
    [fields |-> CommonFields \o
                << Field("change_set", TOpaque),
                   Field("culprits", TVec(TStruct("ShortUser"))) >>,
     flatten |-> FALSE]

Record(n) ==
    CASE n = "CommonBuild" -> CommonBuild
      [] n = "MatrixBuild" -> MatrixBuild
      [] n = "MatrixRun" -> MatrixRun

(***************************************************************************)
(* Decoding (serde::Deserialize).                                          *)
(***************************************************************************)
InRange(n, ty) ==
    IF ty.signed
    THEN ty.bits >= 32 \/ (n >= -(2^(ty.bits - 1)) /\ n < 2^(ty.bits - 1))
    ELSE n >= 0 /\ (ty.bits >= 31 \/ n < 2^ty.bits)

\* The variant of a unit enum written as text s, or none.
UnitVariant(enum, s) ==
    LET hits == {i \in 1..Len(enum) : enum[i].text = s}
    IN  IF hits = {} THEN None
        ELSE Some(enum[CHOOSE i \in hits : \A j \in hits : i <= j].variant)

\* The text a variant of a unit enum is written as.
UnitText(enum, v) ==
    enum[CHOOSE i \in 1..Len(enum) : enum[i].variant = v].text

FieldNames(fields) == {fields[i].name : i \in 1..Len(fields)}
FieldKeys(fields) == {CamelCase(fields[i].name) : i \in 1..Len(fields)}
FieldOf(fields, n) == fields[CHOOSE i \in 1..Len(fields) : fields[i].name = n]

\* The discriminant of a document: Some(tag) when "_class" is a string.
Discriminant(j) ==
    IF j.kind = "object" /\ "_class" \in DOMAIN j.o
       /\ j.o["_class"].kind = "string"
    THEN Some(j.o["_class"].s)
    ELSE None

\* The first known shape, in declaration order, whose tag is the discriminant.
MatchVariant(variants, class) ==
    LET hits == {i \in 1..Len(variants) :
                    class.some /\ variants[i].class = class.v}
    IN  IF hits = {} THEN None
        ELSE Some(variants[CHOOSE i \in hits : \A k \in hits : i <= k])

\* The Fallback Variant: the discriminant, if any, and the raw document.
Unknown(j) ==
    [variant |-> "Unknown", fields |-> [class |-> Discriminant(j), raw |-> j]]

RECURSIVE Decode(_, _)
RECURSIVE DecodeFields(_, _)
RECURSIVE DecodeTagged(_, _)

\* One declared field out of object obj: a missing key is None for an Option
\* and a failure for anything else.
DecodeField(f, obj) ==
    IF CamelCase(f.name) \in DOMAIN obj
    THEN Decode(f.type, obj[CamelCase(f.name)])
    ELSE IF f.type.t = "Option" THEN Ok(None) ELSE Err(StructuralDecodeError)

\* The declared fields out of object obj (a derived struct): keys that are
\* not declared are ignored, one failing field fails the whole.
DecodeFields(fields, obj) ==
    LET r == [n \in FieldNames(fields) |-> DecodeField(FieldOf(fields, n), obj)]
    IN  IF \E n \in DOMAIN r : ~r[n].ok
        THEN Err(StructuralDecodeError)
        ELSE Ok([n \in DOMAIN r |-> r[n].val])

\* The closed decoder of union n.
DecodeTagged(n, j) ==
    LET enum == TaggedEnum(n)
        m == MatchVariant(enum.variants, Discriminant(j))
    IN  IF ~m.some THEN Ok(Unknown(j))
        ELSE LET r == DecodeFields(enum.common \o m.v.fields, j.o)
             IN  IF r.ok
                 THEN Ok([variant |-> m.v.variant, fields |-> r.val])
                 ELSE Err(StructuralDecodeError)

Decode(ty, j) ==
    CASE ty.t = "String" ->
           IF j.kind = "string" THEN Ok(j.s) ELSE Err(StructuralDecodeError)
      [] ty.t = "bool" ->
           IF j.kind = "bool" THEN Ok(j.b) ELSE Err(StructuralDecodeError)
      [] ty.t = "int" ->
           IF j.kind = "number" /\ InRange(j.n, ty)
           THEN Ok(j.n) ELSE Err(StructuralDecodeError)
      [] ty.t = "Option" ->
           IF j.kind = "null" THEN Ok(None)
           ELSE LET r == Decode(ty.of, j)
                IN  IF r.ok THEN Ok(Some(r.val)) ELSE r
      [] ty.t = "Vec" ->
           IF j.kind # "array" THEN Err(StructuralDecodeError)
           ELSE LET r == [i \in 1..Len(j.a) |-> Decode(ty.of, j.a[i])]
                IN  IF \E i \in 1..Len(j.a) : ~r[i].ok
                    THEN Err(StructuralDecodeError)
                    ELSE Ok([i \in 1..Len(j.a) |-> r[i].val])
      [] ty.t = "struct" ->
           IF j.kind = "object" THEN DecodeFields(Struct(ty.name), j.o)
           ELSE Err(StructuralDecodeError)
      [] ty.t = "unit_enum" ->
           IF j.kind = "string" /\ UnitVariant(UnitEnum(ty.name), j.s).some
           THEN Ok(UnitVariant(UnitEnum(ty.name), j.s).v)
           ELSE Err(StructuralDecodeError)
      [] ty.t = "tagged" -> DecodeTagged(ty.name, j)
      [] ty.t = "opaque" ->
           IF j.kind = "object" THEN Ok(j) ELSE Err(StructuralDecodeError)

\* DecodeRecord with nothing kept in other_fields.
DecodeRecordDropping(n, j) ==
    IF j.kind # "object" THEN Err(StructuralDecodeError)
    ELSE LET rec == Record(n)
             r == DecodeFields(rec.fields, j.o)
         IN  IF ~r.ok THEN Err(StructuralDecodeError)
             ELSE IF rec.flatten
             THEN Ok([record |-> n, fields |-> r.val, other_fields |-> EmptyMap])
             ELSE Ok([record |-> n, fields |-> r.val])

\* DecodeRecord refusing a document with a key the record does not declare.
DecodeRecordStrict(n, j) ==
    IF j.kind # "object" THEN Err(StructuralDecodeError)
    ELSE LET rec == Record(n)
             r == DecodeFields(rec.fields, j.o)
             rest == (DOMAIN j.o) \ FieldKeys(rec.fields)
         IN  IF ~r.ok \/ (rest # {} /\ ~rec.flatten)
             THEN Err(StructuralDecodeError)
             ELSE IF rec.flatten
             THEN Ok([record |-> n, fields |-> r.val,
                      other_fields |-> [k \in rest |-> j.o[k]]])
             ELSE Ok([record |-> n, fields |-> r.val])

\* The open decoder of record n: the declared fields into their slots and,
\* with a flattened field, every other key into other_fields.
DecodeRecord(n, j) ==
    IF j.kind # "object" THEN Err(StructuralDecodeError)
    ELSE LET rec == Record(n)
             r == DecodeFields(rec.fields, j.o)
             rest == (DOMAIN j.o) \ FieldKeys(rec.fields)
         IN  IF ~r.ok THEN Err(StructuralDecodeError)
             ELSE IF rec.flatten
             THEN Ok([record |-> n, fields |-> r.val,
                      other_fields |-> [k \in rest |-> j.o[k]]])
             ELSE Ok([record |-> n, fields |-> r.val])

(***************************************************************************)
(* Encoding (serde::Serialize), derived for CommonBuild and the leaf       *)
(* value objects it holds.                                                 *)
(***************************************************************************)
RECURSIVE Encode(_, _)
RECURSIVE EncodeFields(_, _)

EncodeFields(fields, v) ==
    [k \in FieldKeys(fields) |->
        LET f == fields[CHOOSE i \in 1..Len(fields) :
                           CamelCase(fields[i].name) = k]
        IN  Encode(f.type, v[f.name])]

Encode(ty, v) ==
    CASE ty.t = "String" -> JString(v)
      [] ty.t = "bool" -> JBool(v)
      [] ty.t = "int" -> JNumber(v)
      [] ty.t = "Option" -> IF v.some THEN Encode(ty.of, v.v) ELSE JNull
      [] ty.t = "Vec" -> JArray([i \in 1..Len(v) |-> Encode(ty.of, v[i])])
      [] ty.t = "struct" -> JObject(EncodeFields(Struct(ty.name), v))
      [] ty.t = "unit_enum" -> JString(UnitText(UnitEnum(ty.name), v))
      [] ty.t = "opaque" -> v

\* A decoded CommonBuild written back: the declared fields, then the entries
\* of the flattened other_fields.
EncodeRecord(rec) ==
    LET declared == EncodeFields(Record(rec.record).fields, rec.fields)
    IN  JObject([k \in (DOMAIN declared) \cup (DOMAIN rec.other_fields) |->
                    IF k \in DOMAIN declared THEN declared[k]
                    ELSE rec.other_fields[k]])

(***************************************************************************)
(* Payloads: the documents the transport hands to a decoder.  Each is a    *)
(* Jenkins document, or one changed at up to MaxEdits keys; change-set     *)
(* lists carry up to MaxItems entries.                                     *)
(***************************************************************************)
MaxEdits == 1
MaxItems == 2

Obj1(k, v) == k :> v

ValidArtifact ==
    JObject([displayPath |-> JString("a.txt"), fileName |-> JString("a.txt"),
             relativePath |-> JString("out/a.txt")])

ValidShortUser ==
    JObject([fullName |-> JString("Ann"),
             absoluteUrl |-> JString("http://x/user/ann")])

ValidShortBuild ==
    JObject([url |-> JString("http://x/job/a/1/"), number |-> JNumber(1)])

ValidGitChangeSet ==
    JObject(Obj1("_class", JString("hudson.plugins.git.GitChangeSet")) @@
            [comment |-> JString("c"), authorEmail |-> JString("a@x"),
             commitId |-> JString("abc"), date |-> JString("2018-01-01"),
             msg |-> JString("m"), timestamp |-> JNumber(1000),
             id |-> JString("abc"),
             affectedPaths |-> JArray(<< JString("f") >>),
             author |-> ValidShortUser,
             paths |-> JArray(<< JObject([file |-> JString("f"),
                                          editType |-> JString("edit")]) >>)])

ValidChangeLogEntry ==
    JObject(Obj1("_class", JString("hudson.plugins.repo.ChangeLogEntry")) @@
            [msg |-> JString("m"), timestamp |-> JNumber(-1),
             author |-> ValidShortUser])

\* Entries of a change-set list: of a known shape, of a shape not modelled,
\* with no discriminant, and of a known shape with a declared field missing.
ItemDocs ==
    { ValidGitChangeSet,
      ValidChangeLogEntry,
      JObject(Obj1("_class", JString("hudson.scm.SubversionChangeLogSet$LogEntry"))
              @@ [msg |-> JString("m")]),
      JObject([msg |-> JString("m")]),
      JObject(Without(ValidGitChangeSet.o, "author")) }

SeqsUpTo(S, n) == UNION {[1..k -> S] : k \in 0..n}

EmptyChangeSet == JObject(Obj1("_class", JString("hudson.scm.EmptyChangeLogSet")))

GitChangeSetList(items) ==
    JObject(Obj1("_class", JString("hudson.plugins.git.GitChangeSetList")) @@
            [kind |-> JString("git"), items |-> JArray(items)])

UnknownChangeSetList(items) ==
    JObject(Obj1("_class", JString("hudson.scm.SubversionChangeLogSet")) @@
            [kind |-> JString("svn"), items |-> JArray(items)])

ChangeSetListDocs ==
    {EmptyChangeSet}
    \cup {GitChangeSetList(items) : items \in SeqsUpTo(ItemDocs, MaxItems)}
    \cup {UnknownChangeSetList(items) : items \in SeqsUpTo(ItemDocs, 1)}

\* The fields every build document carries.
ValidCommon(class, url, number) ==
    Obj1("_class", JString(class)) @@
    [url |-> JString(url), number |-> JNumber(number),
     duration |-> JNumber(10), estimatedDuration |-> JNumber(12),
     timestamp |-> JNumber(1000), keepLog |-> JBool(FALSE),
     result |-> JString("SUCCESS"), displayName |-> JString("#1"),
     fullDisplayName |-> JString("a #1"), description |-> JNull,
     building |-> JBool(FALSE), id |-> JString("1"), queueId |-> JNumber(-1),
     actions |-> JArray(<< JObject(Obj1("_class", JString("hudson.model.CauseAction"))) >>),
     artifacts |-> JArray(<< ValidArtifact >>)]

FreeStyleBuildDoc ==
    JObject(ValidCommon("hudson.model.FreeStyleBuild", "http://x/job/a/1/", 1) @@
            [builtOn |-> JString("master"), changeSet |-> EmptyChangeSet,
             culprits |-> JArray(<< >>)])

WorkflowRunDoc(changeSets) ==
    JObject(ValidCommon("org.jenkinsci.plugins.workflow.job.WorkflowRun",
                        "http://x/job/a/2/", 2) @@
            [changeSets |-> JArray(changeSets),
             previousBuild |-> ValidShortBuild,
             culprits |-> JArray(<< >>)])

MatrixBuildDoc ==
    JObject(ValidCommon("hudson.matrix.MatrixBuild", "http://x/job/m/3/", 3) @@
            [changeSet |-> GitChangeSetList(<< ValidGitChangeSet >>),
             runs |-> JArray(<< ValidShortBuild >>),
             culprits |-> JArray(<< ValidShortUser >>)])

MatrixRunDoc ==
    JObject(ValidCommon("hudson.matrix.MatrixRun", "http://x/job/m/c/3/", 3) @@
            [changeSet |-> EmptyChangeSet,
             culprits |-> JArray(<< ValidShortUser >>)])

MavenModuleSetBuildDoc ==
    JObject(ValidCommon("hudson.maven.MavenModuleSetBuild", "http://x/job/a/4/", 4) @@
            [changeSet |-> EmptyChangeSet, mavenVersionUsed |-> JString("3.5"),
             builtOn |-> JString("master"), culprits |-> JArray(<< >>)])

MavenBuildDoc ==
    JObject(ValidCommon("hudson.maven.MavenBuild", "http://x/job/a/5/", 5) @@
            [changeSet |-> EmptyChangeSet, builtOn |-> JString("master"),
             mavenArtifacts |-> JObject([pomArtifact |-> JNull]),
             culprits |-> JArray(<< >>)])

\* {"_class":"some.future.PluginBuild","url":"http://x/2/","number":2}
FuturePluginBuildDoc ==
    JObject(Obj1("_class", JString("some.future.PluginBuild")) @@
            [url |-> JString("http://x/2/"), number |-> JNumber(2)])

\* {"url":"http://x/3/","number":3,"customField":"abc"}
CustomFieldDoc ==
    JObject([url |-> JString("http://x/3/"), number |-> JNumber(3),
             customField |-> JString("abc")])

\* CustomFieldDoc completed with the other required common fields.
CompletedCustomFieldDoc ==
    JObject(Without(ValidCommon("", "http://x/3/", 3), "_class") @@
            [customField |-> JString("abc")])

BaseDocs ==
    { FreeStyleBuildDoc, WorkflowRunDoc(<< EmptyChangeSet >>), MatrixBuildDoc,
      MatrixRunDoc, MavenModuleSetBuildDoc, MavenBuildDoc,
      FuturePluginBuildDoc, CustomFieldDoc }

\* What a key of a document may be changed to.
Alternatives(k, d) ==
    {JNull}
    \cup (IF k \in DOMAIN d /\ d[k].kind = "string"
          THEN {JNumber(7)} ELSE {JString("x")})
    \cup (CASE k = "url" -> {JString("http://x/job/a/"), JString("http://x/job/m/c/3/")}
            [] k = "number" -> {JNumber(-1)}
            [] k = "result" -> {JString("BOGUS"), JString("NOT_BUILT")}
            [] k = "_class" -> {JString("hudson.matrix.MatriRun"),
                                JString("hudson.matrix.MatrixRun")}
            [] k = "customField" -> {JString("abc")}
            [] k = "artifacts" ->
                 {JArray(<< JObject(With(ValidArtifact.o, "size", JNumber(5))) >>),
                  JArray(<< JObject(Without(ValidArtifact.o, "fileName")) >>)}
            [] OTHER -> {})

EditKeys(d) == (DOMAIN d) \cup {"customField"}

\* The documents one change away from document j.
Edits(j) ==
    {JObject(Without(j.o, k)) : k \in DOMAIN j.o}
    \cup UNION {{JObject(With(j.o, k, v)) : v \in Alternatives(k, j.o)} :
                   k \in EditKeys(j.o)}

WorkflowRunDocs ==
    {WorkflowRunDoc(cs) :
        cs \in SeqsUpTo({EmptyChangeSet,
                         GitChangeSetList(<< ValidGitChangeSet,
                                             JObject([msg |-> JString("m")]) >>),
                         UnknownChangeSetList(<< >>),
                         GitChangeSetList(<< JObject(Without(ValidGitChangeSet.o,
                                                             "author")) >>)},
                        MaxItems)}

Payloads ==
    BaseDocs \cup {CompletedCustomFieldDoc} \cup WorkflowRunDocs
    \cup ChangeSetListDocs \cup ItemDocs

(***************************************************************************)
(* Common-field dispatch of the closed Build union                         *)
(* (build_common_fields_dispatch!).                                        *)
(***************************************************************************)
\* variant_name(): the name of the variant a value holds.
VariantName(b) == b.variant

InvalidObjectType(field, b) ==
    [error |-> "InvalidObjectType",
     object_type |-> "Build",
     action |-> [kind |-> "GetField", field |-> field],
     variant_name |-> VariantName(b)]

\* BuildCommonFieldsDispatch with the Unknown arm pasted from the url accessor.
BuildCommonFieldsDispatchPasted(field, b) ==
    IF b.variant = "Unknown" THEN Err(InvalidObjectType("url", b))
    ELSE Ok(b.fields[field])

BuildCommonFieldsDispatch(field, b) ==
    CASE b.variant = "FreeStyleBuild" -> Ok(b.fields[field])
      [] b.variant = "WorkflowRun" -> Ok(b.fields[field])
      [] b.variant = "MatrixBuild" -> Ok(b.fields[field])
      [] b.variant = "MatrixRun" -> Ok(b.fields[field])
      [] b.variant = "MavenModuleSetBuild" -> Ok(b.fields[field])
      [] b.variant = "MavenBuild" -> Ok(b.fields[field])
      [] b.variant = "Unknown" -> Err(InvalidObjectType(field, b))

BuildUrl(b) == BuildCommonFieldsDispatch("url", b)
BuildTimestamp(b) == BuildCommonFieldsDispatch("timestamp", b)
BuildResult(b) == BuildCommonFieldsDispatch("result", b)
BuildNumberOf(b) == BuildCommonFieldsDispatch("number", b)
BuildDuration(b) == BuildCommonFieldsDispatch("duration", b)

Accessors == {"url", "timestamp", "result", "number", "duration"}

BuildAccessor(name, b) ==
    CASE name = "url" -> BuildUrl(b)
      [] name = "timestamp" -> BuildTimestamp(b)
      [] name = "result" -> BuildResult(b)
      [] name = "number" -> BuildNumberOf(b)
      [] name = "duration" -> BuildDuration(b)

(***************************************************************************)
(* The client: the URL-to-path resolver and the request it sends.          *)
(***************************************************************************)
PathBuild(job, number, configuration) ==
    [path |-> "Build", job_name |-> job, number |-> number,
     configuration |-> configuration]
PathJob(name, configuration) ==
    [path |-> "Job", name |-> name, configuration |-> configuration]
PathConsoleText(job, number, configuration) ==
    [path |-> "ConsoleText", job_name |-> job, number |-> number,
     configuration |-> configuration]
PathRaw(url) == [path |-> "Raw", url |-> url]

\* Jenkins::url_to_path on the URLs of the payloads.
UrlToPath(url) ==
    CASE url = "http://x/job/a/1/" -> PathBuild("a", 1, None)
      [] url = "http://x/job/a/2/" -> PathBuild("a", 2, None)
      [] url = "http://x/job/m/3/" -> PathBuild("m", 3, None)
      [] url = "http://x/job/m/c/3/" -> PathBuild("m", 3, Some("c"))
      [] url = "http://x/job/a/4/" -> PathBuild("a", 4, None)
      [] url = "http://x/job/a/5/" -> PathBuild("a", 5, None)
      [] url = "http://x/job/a/" -> PathJob("a", None)
      [] OTHER -> PathRaw(url)

\* What the server answers to a request.
Responses == {"ok", "http_error", "decode_error"}

Resolved(url) == [op |-> "url_to_path", arg |-> url]
Requested(path) == [op |-> "get", arg |-> path]

\* jenkins_client.get(path)?.json()? (or .text()?): the body, or the error.
Fetch(path, resp) ==
    IF resp = "ok" THEN Ok([body_of |-> path]) ELSE Err([error |-> resp])

InvalidUrl(url) ==
    [error |-> "InvalidUrl", url |-> url, expected |-> "Build"]

\* What a call did: its result and, in order, the URLs it resolved and the
\* requests it sent.
Outcome(result, events) == [result |-> result, events |-> events]

\* BuildGetJob sending the request before it looks at the resolved path.
BuildGetJobEager(b, resp) ==
    LET u == BuildUrl(b)
    IN  IF ~u.ok THEN Outcome(u, << >>)
        ELSE LET path == UrlToPath(u.val)
                 sent == Fetch(path, resp)
             IN  IF path.path = "Build"
                 THEN Outcome(sent, << Resolved(u.val), Requested(path) >>)
                 ELSE Outcome(Err(InvalidUrl(u.val)),
                              << Resolved(u.val), Requested(path) >>)

\* Build::get_job of the closed union.
BuildGetJob(b, resp) ==
    LET u == BuildUrl(b)
    IN  IF ~u.ok THEN Outcome(u, << >>)
        ELSE LET path == UrlToPath(u.val)
             IN  IF path.path = "Build"
                 THEN LET job == PathJob(path.job_name, path.configuration)
                      IN  Outcome(Fetch(job, resp),
                                  << Resolved(u.val), Requested(job) >>)
                 ELSE LET u2 == BuildUrl(b)
                      IN  Outcome(IF u2.ok THEN Err(InvalidUrl(u2.val)) ELSE u2,
                                  << Resolved(u.val) >>)

\* Build::get_console of the closed union.
BuildGetConsole(b, resp) ==
    LET u == BuildUrl(b)
    IN  IF ~u.ok THEN Outcome(u, << >>)
        ELSE LET path == UrlToPath(u.val)
             IN  IF path.path = "Build"
                 THEN LET text == PathConsoleText(path.job_name, path.number,
                                                  path.configuration)
                      IN  Outcome(Fetch(text, resp),
                                  << Resolved(u.val), Requested(text) >>)
                 ELSE LET u2 == BuildUrl(b)
                      IN  Outcome(IF u2.ok THEN Err(InvalidUrl(u2.val)) ELSE u2,
                                  << Resolved(u.val) >>)

\* trait Build::get_job of the open records, whose url() cannot fail.
GetJob(rec, resp) ==
    LET path == UrlToPath(rec.fields.url)
    IN  IF path.path = "Build"
        THEN LET job == PathJob(path.job_name, path.configuration)
             IN  Outcome(Fetch(job, resp),
                         << Resolved(rec.fields.url), Requested(job) >>)
        ELSE Outcome(Err(InvalidUrl(rec.fields.url)),
                     << Resolved(rec.fields.url) >>)

\* trait Build::get_console of the open records.
GetConsole(rec, resp) ==
    LET path == UrlToPath(rec.fields.url)
    IN  IF path.path = "Build"
        THEN LET text == PathConsoleText(path.job_name, path.number,
                                         path.configuration)
             IN  Outcome(Fetch(text, resp),
                         << Resolved(rec.fields.url), Requested(text) >>)
        ELSE Outcome(Err(InvalidUrl(rec.fields.url)),
                     << Resolved(rec.fields.url) >>)

\* ShortBuild::get_full_build.
GetFullBuild(sb, resp) ==
    LET path == UrlToPath(sb.url)
    IN  IF path.path = "Build"
        THEN Outcome(Fetch(path, resp), << Resolved(sb.url), Requested(path) >>)
        ELSE Outcome(Err(InvalidUrl(sb.url)), << Resolved(sb.url) >>)

(***************************************************************************)
(* The Class Registry (register_class!).                                   *)
(***************************************************************************)
\* The registrations made at startup.
StartupRegistrations ==
    << [class |-> "hudson.matrix.MatrixBuild", type |-> "MatrixBuild"],
       [class |-> "hudson.matrix.MatriRun", type |-> "MatrixRun"] >>

\* Register keeping nothing but the newest entry.
RegisterReplacing(reg, class, type) == class :> type

\* register(discriminant, type): entries are only ever added.
Register(reg, class, type) ==
    IF class \in DOMAIN reg THEN reg ELSE With(reg, class, type)

\* lookup(discriminant): the registered type, or empty.
Lookup(reg, class) ==
    IF class \in DOMAIN reg THEN Some(reg[class]) ELSE None

(***************************************************************************)
(* The state: the payload at hand, the value it was decoded into, the last *)
(* call made on that value with the URLs it resolved and the requests it   *)
(* sent, and the class registry with the registrations made so far.        *)
(***************************************************************************)
VARIABLES payload, edits, decoded, call, trace, registry, registrations

vars == << payload, edits, decoded, call, trace, registry, registrations >>

MaxRegistrations == 3

NoPayload == JValue("none", "", 0, FALSE, << >>, << >>)
NotDecoded == [as |-> "none"]
NoCall == [op |-> "none"]

Classes ==
    {"hudson.matrix.MatrixBuild", "hudson.matrix.MatrixRun",
     "hudson.matrix.MatriRun"}
Types == {"MatrixBuild", "MatrixRun"}

Init ==
    /\ payload = NoPayload
    /\ edits = 0
    /\ decoded = NotDecoded
    /\ call = NoCall
    /\ trace = << >>
    /\ registry = EmptyMap
    /\ registrations = << >>

\* The transport hands over a document.
Receive ==
    /\ payload = NoPayload
    /\ \E doc \in Payloads : payload' = doc
    /\ edits' = 0
    /\ UNCHANGED << decoded, call, trace, registry, registrations >>

\* The document handed over differs from a Jenkins document at one more key.
Edit ==
    /\ payload \in BaseDocs \/ edits > 0
    /\ edits < MaxEdits
    /\ decoded.as = "none"
    /\ \E doc \in Edits(payload) : payload' = doc
    /\ edits' = edits + 1
    /\ UNCHANGED << decoded, call, trace, registry, registrations >>

\* The closed decoder of union n on the payload.
DecodeClosed(n) ==
    /\ payload # NoPayload
    /\ decoded.as = "none"
    /\ decoded' = [as |-> n, strategy |-> "closed",
                   result |-> DecodeTagged(n, payload)]
    /\ UNCHANGED << payload, edits, call, trace, registry, registrations >>

\* The open decoder of record n on the payload.
DecodeOpen(n) ==
    /\ payload # NoPayload
    /\ decoded.as = "none"
    /\ decoded' = [as |-> n, strategy |-> "open",
                   result |-> DecodeRecord(n, payload)]
    /\ UNCHANGED << payload, edits, call, trace, registry, registrations >>

\* The payload decoded as the leaf value object ShortBuild.
DecodeShortBuild ==
    /\ payload # NoPayload
    /\ decoded.as = "none"
    /\ decoded' = [as |-> "ShortBuild", strategy |-> "leaf",
                   result |-> Decode(TStruct("ShortBuild"), payload)]
    /\ UNCHANGED << payload, edits, call, trace, registry, registrations >>

Decoded(n) == decoded.as = n /\ decoded.result.ok

\* A common-field accessor of the closed Build union.
CallAccessor(name) ==
    /\ Decoded("Build")
    /\ call.op = "none"
    /\ call' = [op |-> name, result |-> BuildAccessor(name, decoded.result.val)]
    /\ trace' = << >>
    /\ UNCHANGED << payload, edits, decoded, registry, registrations >>

Finish(op, outcome) ==
    /\ call' = [op |-> op, result |-> outcome.result]
    /\ trace' = outcome.events
    /\ UNCHANGED << payload, edits, decoded, registry, registrations >>

CallBuildGetJob(resp) ==
    /\ Decoded("Build")
    /\ call.op = "none"
    /\ Finish("get_job", BuildGetJob(decoded.result.val, resp))

CallBuildGetConsole(resp) ==
    /\ Decoded("Build")
    /\ call.op = "none"
    /\ Finish("get_console", BuildGetConsole(decoded.result.val, resp))

CallGetJob(resp) ==
    /\ decoded.as \in {"CommonBuild", "MatrixBuild", "MatrixRun"}
    /\ decoded.result.ok
    /\ call.op = "none"
    /\ Finish("get_job", GetJob(decoded.result.val, resp))

CallGetConsole(resp) ==
    /\ decoded.as \in {"CommonBuild", "MatrixBuild", "MatrixRun"}
    /\ decoded.result.ok
    /\ call.op = "none"
    /\ Finish("get_console", GetConsole(decoded.result.val, resp))

CallGetFullBuild(resp) ==
    /\ Decoded("ShortBuild")
    /\ call.op = "none"
    /\ Finish("get_full_build", GetFullBuild(decoded.result.val, resp))

\* The caller drops the value and the payload.
Drop ==
    /\ payload # NoPayload
    /\ payload' = NoPayload
    /\ edits' = 0
    /\ decoded' = NotDecoded
    /\ call' = NoCall
    /\ trace' = << >>
    /\ UNCHANGED << registry, registrations >>

\* register_class!: one registration.
RegisterClass(class, type) ==
    /\ Len(registrations) < MaxRegistrations
    /\ registry' = Register(registry, class, type)
    /\ registrations' = Append(registrations, [class |-> class, type |-> type])
    /\ call' = NoCall
    /\ UNCHANGED << payload, edits, decoded, trace >>

\* The registrations of the program's start, in the order they are linked.
Startup ==
    /\ registrations = << >>
    /\ \E first \in 1..2 :
          LET a == StartupRegistrations[first]
              b == StartupRegistrations[3 - first]
          IN  /\ registry' = Register(Register(registry, a.class, a.type),
                                      b.class, b.type)
              /\ registrations' = << a, b >>
    /\ call' = NoCall
    /\ UNCHANGED << payload, edits, decoded, trace >>

\* A lookup in the registry.
LookupClass(class) ==
    /\ call' = [op |-> "lookup", class |-> class,
                result |-> Lookup(registry, class)]
    /\ UNCHANGED << payload, edits, decoded, trace, registry, registrations >>

Next ==
    \/ Receive
    \/ Edit
    \/ \E n \in {"Build", "ChangeSetList", "ChangeSet"} : DecodeClosed(n)
    \/ \E n \in {"CommonBuild", "MatrixBuild", "MatrixRun"} : DecodeOpen(n)
    \/ DecodeShortBuild
    \/ \E name \in Accessors : CallAccessor(name)
    \/ \E resp \in Responses : CallBuildGetJob(resp)
    \/ \E resp \in Responses : CallBuildGetConsole(resp)
    \/ \E resp \in Responses : CallGetJob(resp)
    \/ \E resp \in Responses : CallGetConsole(resp)
    \/ \E resp \in Responses : CallGetFullBuild(resp)
    \/ Drop

Spec == Init /\ [][Next]_vars

NextRegistry ==
    \/ Startup
    \/ \E class \in Classes, type \in Types : RegisterClass(class, type)
    \/ \E class \in Classes : LookupClass(class)

SpecRegistry == Init /\ [][NextRegistry]_vars

(***************************************************************************)
(* Properties.                                                             *)
(***************************************************************************)
\* The known shapes of the closed unions: tag and shape.
KnownShapes(n) ==
    CASE n = "Build" ->
           { <<"hudson.model.FreeStyleBuild", "FreeStyleBuild">>,
             <<"org.jenkinsci.plugins.workflow.job.WorkflowRun", "WorkflowRun">>,
             <<"hudson.matrix.MatrixBuild", "MatrixBuild">>,
             <<"hudson.matrix.MatrixRun", "MatrixRun">>,
             <<"hudson.maven.MavenModuleSetBuild", "MavenModuleSetBuild">>,
             <<"hudson.maven.MavenBuild", "MavenBuild">> }
      [] n = "ChangeSetList" ->
           { <<"hudson.scm.EmptyChangeLogSet", "EmptyChangeSet">>,
             <<"hudson.plugins.git.GitChangeSetList", "GitChangeSetList">>,
             <<"hudson.plugins.repo.RepoChangeLogSet", "RepoChangeLogSet">>,
             <<"hudson.maven.FilteredChangeLogSet", "FilteredChangeLogSet">> }
      [] n = "ChangeSet" ->
           { <<"hudson.plugins.git.GitChangeSet", "GitChangeSet">>,
             <<"hudson.plugins.repo.ChangeLogEntry", "ChangeLogEntry">> }

KnownTags(n) == {p[1] : p \in KnownShapes(n)}
ShapeOfTag(n, tag) == (CHOOSE p \in KnownShapes(n) : p[1] = tag)[2]

\* The "_class" of document j is the string tag.
HasTag(j, tag) ==
    /\ j.kind = "object"
    /\ "_class" \in DOMAIN j.o
    /\ j.o["_class"].kind = "string"
    /\ j.o["_class"].s = tag

\* The "_class" of document j is the tag of a known shape of union n.
Recognised(n, j) == \E tag \in KnownTags(n) : HasTag(j, tag)

\* The fields union n declares for shape v: the common ones and the shape's own.
DeclaredFields(n, v) ==
    LET enum == TaggedEnum(n)
        i == CHOOSE k \in 1..Len(enum.variants) : enum.variants[k].variant = v
    IN  enum.common \o enum.variants[i].fields

\* Every one of the fields decodes out of object obj.
FieldsValid(fields, obj) ==
    \A i \in 1..Len(fields) : DecodeField(fields[i], obj).ok

DecodedClosed == decoded.as \in {"Build", "ChangeSetList", "ChangeSet"}

\* C1: a document whose "_class" is exactly the tag of a known shape of a
\* closed union and whose declared fields are structurally valid decodes to
\* exactly that shape, never to Unknown; a FreeStyleBuild document with number
\* 1 yields the FreeStyleBuild shape with number() = 1.
C1_KnownTagYieldsItsShape ==
    DecodedClosed =>
        /\ \A p \in KnownShapes(decoded.as) :
              (HasTag(payload, p[1])
               /\ FieldsValid(DeclaredFields(decoded.as, p[2]), payload.o))
              => /\ decoded.result.ok
                 /\ decoded.result.val.variant = p[2]
                 /\ decoded.result.val.variant # "Unknown"
        /\ (decoded.as = "Build" /\ payload = FreeStyleBuildDoc)
              => /\ decoded.result.ok
                 /\ decoded.result.val.variant = "FreeStyleBuild"
                 /\ BuildNumberOf(decoded.result.val) = Ok(1)

C1_Witness ==
    /\ decoded.as = "Build"
    /\ HasTag(payload, "hudson.matrix.MatrixRun")
    /\ decoded.result.ok
    /\ decoded.result.val.variant = "MatrixRun"

\* C2: a document whose "_class" equals none of the known tags of a closed
\* union, or that has no "_class", decodes successfully to Unknown.
C2_UnmatchedTagYieldsUnknown ==
    (DecodedClosed /\ ~Recognised(decoded.as, payload))
    => /\ decoded.result.ok
       /\ decoded.result.val.variant = "Unknown"

C2_Witness ==
    /\ decoded.as = "Build"
    /\ payload.kind = "object"
    /\ "_class" \notin DOMAIN payload.o
    /\ decoded.result.ok
    /\ decoded.result.val.variant = "Unknown"

\* The field an accessor reads, as the payload wrote it.
WrittenAs(name, v) ==
    CASE name = "url" -> JString(v)
      [] name = "result" -> JString(UnitText(BuildStatus, v))
      [] OTHER -> JNumber(v)

\* C3: an accessor (url, timestamp, result, number, duration) called on Unknown
\* returns InvalidObjectType for Build, GetField of that accessor's name and
\* variant "Unknown"; called on one of the six known shapes it returns Ok with
\* the field decoded from the payload.
C3_AccessorOnUnknownFails ==
    (call.op \in Accessors /\ Decoded("Build"))
    => IF decoded.result.val.variant = "Unknown"
       THEN /\ ~call.result.ok
            /\ call.result.err =
                  [error |-> "InvalidObjectType", object_type |-> "Build",
                   action |-> [kind |-> "GetField", field |-> call.op],
                   variant_name |-> "Unknown"]
       ELSE /\ decoded.result.val.variant
                  \in {p[2] : p \in KnownShapes("Build")}
            /\ call.result.ok
            /\ WrittenAs(call.op, call.result.val)
                  = payload.o[CamelCase(call.op)]

C3_Witness ==
    /\ call.op = "number"
    /\ payload = FuturePluginBuildDoc
    /\ Decoded("Build")
    /\ decoded.result.val.variant = "Unknown"
    /\ ~call.result.ok
    /\ call.result.err.action.field = "number"

\* Field f is missing from object obj, or there with a value of the wrong type.
MissingOrWrong(f, obj) ==
    \/ CamelCase(f.name) \notin DOMAIN obj
    \/ ~Decode(f.type, obj[CamelCase(f.name)]).ok

\* C4 as stated: a document with the tag of a known shape and any declared
\* field missing or of the wrong type fails to decode.
C4_AnyMissingFieldFails ==
    DecodedClosed =>
        \A p \in KnownShapes(decoded.as) :
           (HasTag(payload, p[1])
            /\ \E i \in 1..Len(DeclaredFields(decoded.as, p[2])) :
                  MissingOrWrong(DeclaredFields(decoded.as, p[2])[i], payload.o))
           => ~decoded.result.ok

\* The keys a document of a known shape of Build must have.
RequiredBuildKeys(shape) ==
    {"url", "number", "duration", "estimatedDuration", "timestamp", "keepLog",
     "result", "displayName", "fullDisplayName", "building", "id", "queueId",
     "actions", "artifacts"}
    \cup (CASE shape = "FreeStyleBuild" -> {"builtOn", "changeSet"}
            [] shape = "WorkflowRun" -> {"changeSets"}
            [] shape = "MatrixBuild" -> {"changeSet", "runs"}
            [] shape = "MatrixRun" -> {"changeSet"}
            [] shape = "MavenModuleSetBuild" ->
                 {"changeSet", "mavenVersionUsed", "builtOn"}
            [] shape = "MavenBuild" -> {"changeSet", "builtOn", "mavenArtifacts"})

\* C4, amended: a document with the tag of a known shape and a declared field
\* that has the wrong type, or is missing and not declared Option, fails with
\* a structural error, neither Unknown nor a partly populated shape; a field
\* declared Option that is missing or null decodes to None.  Every closed
\* decode ends in one fully populated known shape, in Unknown, or in a
\* structural error.
C4_InvalidFieldFailsWhole ==
    DecodedClosed =>
        /\ \A p \in KnownShapes(decoded.as) :
              (HasTag(payload, p[1])
               /\ ~FieldsValid(DeclaredFields(decoded.as, p[2]), payload.o))
              => /\ ~decoded.result.ok
                 /\ decoded.result.err = StructuralDecodeError
        /\ \A p \in KnownShapes("Build") :
              (decoded.as = "Build" /\ HasTag(payload, p[1])
               /\ RequiredBuildKeys(p[2]) \ DOMAIN payload.o # {})
              => ~decoded.result.ok
        /\ decoded.result.ok =>
              \/ decoded.result.val.variant = "Unknown"
              \/ \E p \in KnownShapes(decoded.as) :
                    LET declared == DeclaredFields(decoded.as, p[2])
                    IN  /\ decoded.result.val.variant = p[2]
                        /\ DOMAIN decoded.result.val.fields = FieldNames(declared)
                        /\ \A i \in 1..Len(declared) :
                              /\ DecodeField(declared[i], payload.o).ok
                              /\ (declared[i].type.t = "Option"
                                  /\ CamelCase(declared[i].name)
                                        \notin DOMAIN payload.o)
                                 => ~decoded.result.val
                                        .fields[declared[i].name].some

C4_Witness ==
    /\ decoded.as = "Build"
    /\ HasTag(payload, "hudson.model.FreeStyleBuild")
    /\ "duration" \notin DOMAIN payload.o
    /\ ~decoded.result.ok

DecodedOpen == decoded.as \in {"CommonBuild", "MatrixBuild", "MatrixRun"}

\* The keys a decoded record holds: those of its declared fields that the
\* source wrote, and those of its overflow container, if it has one.
HeldKeys(rec, src) ==
    (FieldKeys(Record(rec.record).fields) \cap DOMAIN src)
    \cup (IF Record(rec.record).flatten THEN DOMAIN rec.other_fields ELSE {})

DeclaredOnly(artifacts) ==
    JArray([i \in 1..Len(artifacts.a) |->
              JObject([k \in (DOMAIN artifacts.a[i].o) \cap FieldKeys(Artifact)
                         |-> artifacts.a[i].o[k]])])

C6_OnlyCommonFieldsFail ==
    (DecodedOpen /\ ~decoded.result.ok)
    => ~FieldsValid(CommonFields, payload.o)

\* C6, amended: a decode of CommonBuild, MatrixBuild or MatrixRun fails exactly
\* if a field the record declares is structurally invalid: a common field, or
\* _class (CommonBuild), changeSet, runs, culprits (MatrixBuild), changeSet,
\* culprits (MatrixRun); never because of a key the record does not declare,
\* nor because "_class" is a string of any value or absent.
C6_OnlyDeclaredFieldsFail ==
    DecodedOpen =>
        /\ decoded.result.ok = FieldsValid(Record(decoded.as).fields, payload.o)
        /\ ~decoded.result.ok => decoded.result.err = StructuralDecodeError
        /\ (/\ FieldsValid(CommonFields, payload.o)
            /\ decoded.as = "CommonBuild"
            /\ "_class" \in DOMAIN payload.o => payload.o["_class"].kind = "string")
           => decoded.result.ok

C6_Witness ==
    /\ decoded.as = "MatrixRun"
    /\ decoded.result.ok
    /\ HasTag(payload, "hudson.model.FreeStyleBuild")
    /\ "builtOn" \in DOMAIN payload.o

\* C7 as stated: {"url":"http://x/3/","number":3,"customField":"abc"} decodes
\* as CommonBuild with number 3 and customField = "abc" in the overflow.
C7_CustomFieldDocDecodes ==
    (decoded.as = "CommonBuild" /\ payload = CustomFieldDoc)
    => /\ decoded.result.ok
       /\ decoded.result.val.fields.number = 3
       /\ "customField" \in DOMAIN decoded.result.val.other_fields
       /\ decoded.result.val.other_fields["customField"] = JString("abc")

\* C7, amended: the document with url "http://x/3/", number 3, customField
\* "abc" and valid values for the other required common fields decodes as
\* CommonBuild with number 3 and other_fields = {customField: "abc"}; the
\* document of those three keys alone fails with a structural error.
C7_CompletedCustomFieldDocDecodes ==
    decoded.as = "CommonBuild" =>
        /\ payload = CompletedCustomFieldDoc
              => /\ decoded.result.ok
                 /\ decoded.result.val.fields.number = 3
                 /\ decoded.result.val.fields.url = "http://x/3/"
                 /\ DOMAIN decoded.result.val.other_fields = {"customField"}
                 /\ decoded.result.val.other_fields["customField"] = JString("abc")
        /\ payload = CustomFieldDoc
              => /\ ~decoded.result.ok
                 /\ decoded.result.err = StructuralDecodeError

C7_Witness ==
    /\ decoded.as = "CommonBuild"
    /\ payload = CompletedCustomFieldDoc
    /\ decoded.result.ok
    /\ decoded.result.val.fields.number = 3

SameOption(x, y) == x.some = y.some /\ (x.some => x.v = y.v)

SameLookups(r1, r2) ==
    \A class \in Classes : SameOption(Lookup(r1, class), Lookup(r2, class))

RECURSIVE RegisterAll(_, _)
RegisterAll(reg, rs) ==
    IF rs = << >> THEN reg
    ELSE RegisterAll(Register(reg, Head(rs).class, Head(rs).type), Tail(rs))

\* The registrations rs with those at i and i + 1 exchanged.
Exchanged(rs, i) ==
    [k \in 1..Len(rs) |->
        IF k = i THEN rs[i + 1] ELSE IF k = i + 1 THEN rs[i] ELSE rs[k]]

\* C8: the registry is append-only and idempotent: registering again a pair
\* already registered changes no lookup, a registration changes no lookup of
\* another discriminant, the order of registrations of different
\* discriminants changes no lookup, every registration made stays found, and
\* the lookup of a discriminant never registered is empty.
C8_RegistryAppendOnlyIdempotent ==
    /\ \A i \in 1..Len(registrations) :
          LET r == registrations[i]
          IN  /\ Lookup(registry, r.class).some
              /\ SameLookups(Register(registry, r.class, Lookup(registry, r.class).v),
                             registry)
    /\ \A class \in Classes, type \in Types :
          /\ SameLookups(Register(Register(registry, class, type), class, type),
                         Register(registry, class, type))
          /\ \A other \in Classes \ {class} :
                SameOption(Lookup(Register(registry, class, type), other),
                           Lookup(registry, other))
    /\ \A i \in 1..(Len(registrations) - 1) :
          registrations[i].class # registrations[i + 1].class
          => SameLookups(RegisterAll(EmptyMap, Exchanged(registrations, i)),
                         registry)
    /\ \A class \in Classes :
          (\A i \in 1..Len(registrations) : registrations[i].class # class)
          => ~Lookup(registry, class).some
    /\ call.op = "lookup"
          => SameOption(call.result, Lookup(registry, call.class))

C8_Witness ==
    /\ Len(registrations) = 3
    /\ registrations[1] = registrations[3]
    /\ registrations[2].class # registrations[1].class
    /\ call.op = "lookup"
    /\ ~call.result.some

\* Entry e of a list of union n is of no known shape, or of a known shape with
\* its declared fields valid.
EntryDecodable(n, e) ==
    \/ ~Recognised(n, e)
    \/ \E p \in KnownShapes(n) :
          HasTag(e, p[1]) /\ FieldsValid(DeclaredFields(n, p[2]), e.o)

\* Decoded entry v is what entry e of a list of union n decodes to: the shape
\* of its tag, or Unknown holding it.
EntryDecoded(n, e, v) ==
    IF Recognised(n, e)
    THEN \E p \in KnownShapes(n) : HasTag(e, p[1]) /\ v.variant = p[2]
    ELSE v.variant = "Unknown" /\ v.fields.raw = e

\* The array arr of entries of union n decoded to vs: same length, same order.
ListDecoded(n, arr, vs) ==
    /\ Len(vs) = Len(arr)
    /\ \A i \in 1..Len(arr) : EntryDecoded(n, arr[i], vs[i])

HasArray(j, k) == k \in DOMAIN j.o /\ j.o[k].kind = "array"

\* C9: a list of closed-union values in which some entries have an unknown or
\* no "_class" (and the others are valid) decodes as a whole: same length and
\* order, known tags to their shapes, the others to Unknown, and the value
\* holding the list (a GitChangeSetList, a WorkflowRun) to its own shape.
C9_ListWithUnknownEntriesDecodes ==
    /\ (/\ decoded.as = "ChangeSetList"
        /\ HasTag(payload, "hudson.plugins.git.GitChangeSetList")
        /\ HasArray(payload, "items")
        /\ "kind" \in DOMAIN payload.o /\ payload.o["kind"].kind = "string"
        /\ \A i \in 1..Len(payload.o["items"].a) :
              EntryDecodable("ChangeSet", payload.o["items"].a[i]))
       => /\ decoded.result.ok
          /\ decoded.result.val.variant = "GitChangeSetList"
          /\ ListDecoded("ChangeSet", payload.o["items"].a,
                         decoded.result.val.fields.items)
    /\ (/\ decoded.as = "Build"
        /\ HasTag(payload, "org.jenkinsci.plugins.workflow.job.WorkflowRun")
        /\ HasArray(payload, "changeSets")
        /\ FieldsValid(BuildCommonFields, payload.o)
        /\ FieldsValid(<< Field("previous_build", TOption(TStruct("ShortBuild"))) >>,
                       payload.o)
        /\ \A i \in 1..Len(payload.o["changeSets"].a) :
              LET e == payload.o["changeSets"].a[i]
              IN  /\ EntryDecodable("ChangeSetList", e)
                  /\ HasArray(e, "items") =>
                        \A k \in 1..Len(e.o["items"].a) :
                           EntryDecodable("ChangeSet", e.o["items"].a[k]))
       => /\ decoded.result.ok
          /\ decoded.result.val.variant = "WorkflowRun"
          /\ ListDecoded("ChangeSetList", payload.o["changeSets"].a,
                         decoded.result.val.fields.change_sets)
          /\ \A i \in 1..Len(payload.o["changeSets"].a) :
                LET e == payload.o["changeSets"].a[i]
                IN  (Recognised("ChangeSetList", e) /\ HasArray(e, "items"))
                    => ListDecoded("ChangeSet", e.o["items"].a,
                                   decoded.result.val.fields.change_sets[i]
                                      .fields.items)

C9_Witness ==
    /\ decoded.as = "ChangeSetList"
    /\ HasTag(payload, "hudson.plugins.git.GitChangeSetList")
    /\ Len(payload.o["items"].a) = 2
    /\ ~Recognised("ChangeSet", payload.o["items"].a[1])
    /\ HasTag(payload.o["items"].a[2], "hudson.plugins.git.GitChangeSet")
    /\ decoded.result.ok
    /\ decoded.result.val.fields.items[1].variant = "Unknown"
    /\ decoded.result.val.fields.items[2].variant = "GitChangeSet"

ClientCalls == {"get_job", "get_console", "get_full_build"}

\* The url of the value the call was made on, read from the payload.
CalledUrl == payload.o["url"].s

\* C10: get_job, get_console and get_full_build send a request only after the
\* url was read and resolved to a Path::Build; on Unknown, get_job and
\* get_console return InvalidObjectType for url with no URL resolved and no
\* request sent; when the url resolves to another path all three return
\* InvalidUrl with that url and expected Build, with no request sent; a request
\* of get_job is for Path::Job with the job name and configuration of the
\* resolved path, one of get_console for Path::ConsoleText with its job name,
\* number and configuration (one of get_full_build for the resolved path).
C10_RequestOnlyAfterBuildPath ==
    call.op \in ClientCalls =>
        /\ \A i \in 1..Len(trace) :
              trace[i].op = "get"
              => /\ i = 2
                 /\ trace[1].op = "url_to_path"
                 /\ trace[1].arg = CalledUrl
                 /\ UrlToPath(CalledUrl).path = "Build"
                 /\ decoded.as = "Build" => decoded.result.val.variant # "Unknown"
        /\ IF decoded.as = "Build" /\ decoded.result.val.variant = "Unknown"
           THEN /\ trace = << >>
                /\ ~call.result.ok
                /\ call.result.err =
                      [error |-> "InvalidObjectType", object_type |-> "Build",
                       action |-> [kind |-> "GetField", field |-> "url"],
                       variant_name |-> "Unknown"]
           ELSE IF UrlToPath(CalledUrl).path # "Build"
           THEN /\ trace = << Resolved(CalledUrl) >>
                /\ ~call.result.ok
                /\ call.result.err =
                      [error |-> "InvalidUrl", url |-> CalledUrl,
                       expected |-> "Build"]
           ELSE LET path == UrlToPath(CalledUrl)
                    target ==
                       CASE call.op = "get_job" ->
                              [path |-> "Job", name |-> path.job_name,
                               configuration |-> path.configuration]
                         [] call.op = "get_console" ->
                              [path |-> "ConsoleText", job_name |-> path.job_name,
                               number |-> path.number,
                               configuration |-> path.configuration]
                         [] call.op = "get_full_build" -> path
                IN  /\ Len(trace) = 2
                    /\ trace[1] = Resolved(CalledUrl)
                    /\ trace[2].op = "get"
                    /\ trace[2].arg.path = target.path
                    /\ trace[2].arg = target

C10_Witness ==
    /\ call.op = "get_console"
    /\ decoded.as = "Build"
    /\ Len(trace) = 2
    /\ trace[2].op = "get"
    /\ trace[2].arg.path = "ConsoleText"
    /\ trace[2].arg.configuration.some

\* The registrations of the program's start have been made, in either order,
\* and none since.
StartedUp ==
    /\ Len(registrations) = Len(StartupRegistrations)
    /\ {registrations[i] : i \in 1..Len(registrations)}
          = {StartupRegistrations[i] : i \in 1..Len(StartupRegistrations)}

\* C11: after the startup registrations, every tag the closed Build union maps
\* to a matrix shape (MatrixBuild, MatrixRun) is found in the registry, with
\* the open record type of the same name.
C11_MatrixTagsRegistered ==
    StartedUp =>
        \A i \in 1..Len(BuildVariants) :
           BuildVariants[i].variant \in Types
           => /\ Lookup(registry, BuildVariants[i].class).some
              /\ Lookup(registry, BuildVariants[i].class).v
                    = BuildVariants[i].variant

(***************************************************************************)
(* BuildNumber and its conversions.  An integer of a type of 8 to 64 bits  *)
(* is held as its two's complement bit pattern, a sequence of 16-bit limbs *)
(* with the lowest first (one limb of 8 bits for u8 and i8).               *)
(***************************************************************************)
\* The integer types BuildNumber is converted from.
IntTypes == {TInt(signed, bits) : signed \in BOOLEAN, bits \in {8, 16, 32, 64}}

\* Values of a limb and of a byte around the ends of their ranges.
LimbSamples == {0, 1, 32767, 32768, 65535}
ByteSamples == {0, 1, 127, 128, 255}

\* Bit patterns of the type ty.
IntValues(ty) ==
    CASE ty.bits = 8 -> {<< b >> : b \in ByteSamples}
      [] ty.bits = 16 -> {<< l >> : l \in LimbSamples}
      [] ty.bits = 32 -> {<< l, h >> : l \in LimbSamples, h \in LimbSamples}
      [] ty.bits = 64 -> {<< a, b, c, d >> : a \in LimbSamples, b \in LimbSamples,
                                             c \in LimbSamples, d \in LimbSamples}

\* The value v of type ty is below zero.
Negative(ty, v) ==
    ty.signed /\ v[Len(v)] >= (IF ty.bits = 8 THEN 128 ELSE 32768)

\* v of type ty widened to 64 bits: with its sign if ty is signed.
Widen(ty, v) ==
    LET fill == IF Negative(ty, v) THEN 65535 ELSE 0
        low == IF ty.bits = 8 /\ Negative(ty, v) THEN v[1] + 65280 ELSE v[1]
    IN  [i \in 1..4 |-> IF i = 1 THEN low ELSE IF i <= Len(v) THEN v[i] ELSE fill]

\* v as u32: the low 32 bits of v widened.
AsU32(ty, v) == << Widen(ty, v)[1], Widen(ty, v)[2] >>

\* BuildNumber::from(v) for v of type ty: BuildNumber(v) for u32,
\* BuildNumber(v as u32) for the types of into_buildnumber!.
BuildNumberFrom(ty, v) == IF ty = TU32 THEN v ELSE AsU32(ty, v)

\* The u32 n and the value v of type ty are the same number.
SameNumber(n, ty, v) ==
    ~Negative(ty, v) /\ << n[1], n[2], 0, 0 >> = Widen(ty, v)

\* A conversion of an integer to a BuildNumber.
ConvertBuildNumber(ty, v) ==
    /\ call' = [op |-> "build_number_from", type |-> ty, input |-> v,
                result |-> BuildNumberFrom(ty, v)]
    /\ UNCHANGED << payload, edits, decoded, trace, registry, registrations >>

NextBuildNumber ==
    \E ty \in IntTypes : \E v \in IntValues(ty) : ConvertBuildNumber(ty, v)

SpecBuildNumber == Init /\ [][NextBuildNumber]_vars

\* C12: converting an integer to BuildNumber preserves its value: for every v
\* of type u8, u16, u32, u64, i8, i16, i32 or i64, BuildNumber::from(v).0 = v.
C12_BuildNumberFromPreservesValue ==
    call.op = "build_number_from"
    => SameNumber(call.result, call.type, call.input)

=============================================================================
